---- MODULE Spec2Model ----
(***************************************************************************)
(* Model of src/main.rs: a three stage pipeline (generate -> two square    *)
(* workers -> merge) connected by std::sync::mpsc channels, whose shutdown *)
(* is driven only by dropping channel ends.                                *)
(*                                                                         *)
(* Every thread is a small program counter machine.  A channel is its      *)
(* queue plus the liveness of its receive-end and of each send-end.        *)
(* The build profile (overflow checks on, as in a debug build, or off, as  *)
(* in a release build) decides what `num + 1` and `num * num` do on u8     *)
(* overflow; both profiles are explored.                                   *)
(***************************************************************************)
EXTENDS Integers, Sequences, FiniteSets, TLC

\* ------------------------------------------------------------- constants
\* Largest value of the u8 payload of PipelineMsg.
U8Max == 255
\* First value of the generator's counter.
Seed == 2
\* Value at which the orchestrator breaks out of its receive loop.
StopValue == 3
\* Number of square workers the orchestrator builds.
NumWorkers == 2
\* Bound of the model: successful sends the generator may perform.  The
\* generator is otherwise infinite while generated_rx is alive.
MaxSends == 256

Workers == 0 .. (NumWorkers - 1)

\* ------------------------------------------------------------- messages
Generated(n) == [tag |-> "Generated", val |-> n]
SquaredAsGenerated(n) == [tag |-> "Generated", val |-> n]
Squared(n) == [tag |-> "Squared", val |-> n]
Merged(n) == [tag |-> "Merged", val |-> n]

\* Names of the channels, used to index the delivery accounting.
GeneratedChan == <<"generated", 0>>
SquareChan(i) == <<"square", i>>
MergeChan == <<"merge", 0>>
ResultsChan == <<"results", 0>>
Downstream == {SquareChan(i) : i \in Workers} \cup {MergeChan, ResultsChan}
Chans == {GeneratedChan} \cup Downstream

VARIABLES
    overflow_checks,  \* build profile: TRUE panics on u8 overflow, FALSE wraps
    pool_size,        \* number of square(..) entries the pool is built from
    \* generated channel (generated_tx / generated_rx)
    generated_chan,   \* queue of the generated channel
    generated_tx,     \* the send-end (moved to the generator as num_tx) is alive
    generated_rx,     \* the receive-end held by main is alive
    \* the generator thread
    gen_pc, num, gen_sent, gen_last,
    \* one inbound channel per square worker (stx / srx)
    square_chan,      \* [Workers -> queue]
    srx,              \* [Workers -> BOOLEAN] receive-end alive
    square_workers,   \* main's VecDeque of worker send-ends, as worker ids
    \* the square worker threads
    sq_pc, sq_num,
    merge_chan,       \* [Workers -> BOOLEAN] the worker holds its merge send-end
    \* merge-input channel (mtx / mrx)
    merge_q, mrx,
    merge_tx,         \* main still holds the send-end returned by merge()
    \* the merge thread
    merge_pc, squared,
    merged_result_chan, \* the results send-end held by the merge thread is alive
    \* results channel
    results_q, results_rx,
    \* main
    main_pc, msg,
    \* accounting (history)
    accepted,         \* [Chans -> Nat] sends that succeeded
    delivered,        \* [Chans -> Nat] messages taken by the consumer
    discarded,        \* [Chans -> Nat] enqueued messages dropped with the receive-end
    dispatched,       \* sequence of <<worker, value>> main sent to the pool
    drained           \* sequence of Merged values the drain loop received

chan_vars == <<generated_chan, generated_tx, generated_rx, square_chan, srx,
               merge_q, mrx, results_q, results_rx>>
gen_vars == <<gen_pc, num, gen_sent, gen_last>>
sq_vars == <<sq_pc, sq_num, merge_chan>>
mg_vars == <<merge_pc, squared, merged_result_chan>>
main_vars == <<main_pc, msg, square_workers, merge_tx>>
hist_vars == <<accepted, delivered, discarded, dispatched, drained>>
vars == <<overflow_checks, pool_size, chan_vars, gen_vars, sq_vars, mg_vars, main_vars, hist_vars>>

\* ------------------------------------------------------------- helpers
NoMsg == [tag |-> "None", val |-> 0]

Bump(f, c) == [f EXCEPT ![c] = @ + 1]

\* u8 arithmetic: the mathematical result does not fit the type.
Overflows(x) == x > U8Max
\* What the wrapping (release profile) arithmetic keeps of the result.
Wrap(x) == x % (U8Max + 1)

\* num * num of the square stage, before the width is applied.
SquareTruncated(n) == (n * n) % 8
Square(n) == n * n

\* The iteration over a receive-end (`for msg in rx`) ends only when every
\* send-end is gone and the queue is empty; queued messages are still
\* delivered after the last send-end is dropped.
ClosedEager(q, senders) == senders = 0
Closed(q, senders) == senders = 0 /\ q = <<>>

\* Sender::send returns Ok iff the receive-end is still alive.
SendOkAlways(rx) == TRUE
SendOk(rx) == rx

\* Number of live send-ends of each worker's inbound channel: the entries
\* of the pool that name it.
StxCountFront(i) == IF square_workers # <<>> /\ Head(square_workers) = i THEN 1 ELSE 0
StxCount(i) == Cardinality({k \in 1 .. Len(square_workers) : square_workers[k] = i})

\* Number of live send-ends of the merge-input channel.
MergeTxCountFirstOnly == (IF merge_tx THEN 1 ELSE 0) + (IF merge_chan[0] THEN 1 ELSE 0)
MergeTxCount ==
    (IF merge_tx THEN 1 ELSE 0) + Cardinality({i \in Workers : merge_chan[i]})

\* vec![square(merge_tx.clone()), square(merge_tx)]: main keeps merge_tx
\* after spawning worker i iff that worker got a clone.
KeepsMergeTxAlways(i) == TRUE
KeepsMergeTx(i) == i < pool_size - 1

\* `if generated_num == 3 { break; }`
StopTriggerLate(n) == n > StopValue
StopTrigger(n) == n = StopValue

\* square_workers.pop_front().unwrap() panics on an empty pool.
PopFrontNeverFails(pool) == FALSE
PopFrontFails(pool) == pool = <<>>

\* Where the worker send-end goes back into the pool.
RotateFront(pool, w) == <<w>> \o pool
Rotate(pool, w) == Append(pool, w)

\* ------------------------------------------------------------- initial state
\* main has created the results and generated channels and called
\* merge(results_tx): the merge thread runs and main holds merge_tx.
InitPipeline ==
    /\ overflow_checks \in BOOLEAN
    /\ generated_chan = <<>> /\ generated_tx = TRUE /\ generated_rx = TRUE
    /\ gen_pc = "unspawned" /\ num = Seed /\ gen_sent = 0 /\ gen_last = 0
    /\ square_chan = [i \in Workers |-> <<>>]
    /\ srx = [i \in Workers |-> FALSE]
    /\ square_workers = <<>>
    /\ sq_pc = [i \in Workers |-> "unspawned"]
    /\ sq_num = [i \in Workers |-> 0]
    /\ merge_chan = [i \in Workers |-> FALSE]
    /\ merge_q = <<>> /\ mrx = TRUE /\ merge_tx = TRUE
    /\ merge_pc = "recv" /\ squared = 0 /\ merged_result_chan = TRUE
    /\ results_q = <<>> /\ results_rx = TRUE
    /\ main_pc = "spawn_square" /\ msg = NoMsg
    /\ accepted = [c \in Chans |-> 0]
    /\ delivered = [c \in Chans |-> 0]
    /\ discarded = [c \in Chans |-> 0]
    /\ dispatched = <<>>
    /\ drained = <<>>

\* The program as written: the pool is built from two workers.
Init == InitPipeline /\ pool_size = NumWorkers

\* The pool size as a configuration, down to the empty pool.
InitAnyPool == InitPipeline /\ pool_size \in 0 .. NumWorkers

\* ------------------------------------------------------------- generator
\* One iteration of `while let Ok(_) = num_tx.send(Generated(num))`:
\* the send, and on success `num = num + 1`; on failure the loop ends and
\* the closure returns, dropping num_tx.
GenIterate ==
    /\ gen_pc = "loop"
    /\ IF SendOk(generated_rx)
       THEN /\ gen_sent < MaxSends
            /\ generated_chan' = Append(generated_chan, Generated(num))
            /\ accepted' = Bump(accepted, GeneratedChan)
            /\ gen_sent' = gen_sent + 1
            /\ gen_last' = num
            /\ IF Overflows(num + 1)
               THEN IF overflow_checks
                    THEN \* attempt to add with overflow: the thread panics
                         /\ gen_pc' = "panicked" /\ generated_tx' = FALSE
                         /\ num' = num
                    ELSE /\ num' = Wrap(num + 1)
                         /\ UNCHANGED <<gen_pc, generated_tx>>
               ELSE /\ num' = num + 1
                    /\ UNCHANGED <<gen_pc, generated_tx>>
       ELSE /\ gen_pc' = "done" /\ generated_tx' = FALSE
            /\ UNCHANGED <<generated_chan, accepted, gen_sent, gen_last, num>>
    /\ UNCHANGED <<overflow_checks, pool_size, generated_rx, square_chan, srx, merge_q, mrx,
                   results_q, results_rx, sq_vars, mg_vars, main_vars,
                   delivered, discarded, dispatched, drained>>

\* ------------------------------------------------------------- square workers
\* `for msg in srx`: take the next message, or, when the channel is closed,
\* leave the loop and return from the closure, which drops srx and the
\* worker's clone of merge_tx.
SquareRecv(i) ==
    /\ sq_pc[i] = "recv"
    /\ IF ~Closed(square_chan[i], StxCount(i))
       THEN LET m == Head(square_chan[i]) IN
            /\ square_chan[i] # <<>>
            /\ delivered' = Bump(delivered, SquareChan(i))
            /\ IF m.tag = "Generated"
               THEN /\ square_chan' = [square_chan EXCEPT ![i] = Tail(@)]
                    /\ sq_num' = [sq_num EXCEPT ![i] = m.val]
                    /\ sq_pc' = [sq_pc EXCEPT ![i] = "send"]
                    /\ UNCHANGED <<srx, merge_chan, discarded>>
               ELSE \* Unexpected message: the thread unwinds, dropping both ends
                    /\ sq_pc' = [sq_pc EXCEPT ![i] = "panicked"]
                    /\ srx' = [srx EXCEPT ![i] = FALSE]
                    /\ merge_chan' = [merge_chan EXCEPT ![i] = FALSE]
                    /\ discarded' = [discarded EXCEPT ![SquareChan(i)] = @ + Len(Tail(square_chan[i]))]
                    /\ square_chan' = [square_chan EXCEPT ![i] = <<>>]
                    /\ UNCHANGED sq_num
       ELSE /\ sq_pc' = [sq_pc EXCEPT ![i] = "done"]
            /\ srx' = [srx EXCEPT ![i] = FALSE]
            /\ merge_chan' = [merge_chan EXCEPT ![i] = FALSE]
            /\ discarded' = [discarded EXCEPT ![SquareChan(i)] = @ + Len(square_chan[i])]
            /\ square_chan' = [square_chan EXCEPT ![i] = <<>>]
            /\ UNCHANGED <<delivered, sq_num>>
    /\ UNCHANGED <<overflow_checks, pool_size, generated_chan, generated_tx, generated_rx,
                   merge_q, mrx, results_q, results_rx, gen_vars, mg_vars, main_vars,
                   accepted, dispatched, drained>>

\* `let _ = merge_chan.send(Squared(num * num))`
SquareSend(i) ==
    /\ sq_pc[i] = "send"
    /\ IF Overflows(Square(sq_num[i])) /\ overflow_checks
       THEN \* attempt to multiply with overflow: the thread panics
            /\ sq_pc' = [sq_pc EXCEPT ![i] = "panicked"]
            /\ srx' = [srx EXCEPT ![i] = FALSE]
            /\ merge_chan' = [merge_chan EXCEPT ![i] = FALSE]
            /\ discarded' = [discarded EXCEPT ![SquareChan(i)] = @ + Len(square_chan[i])]
            /\ square_chan' = [square_chan EXCEPT ![i] = <<>>]
            /\ UNCHANGED <<merge_q, accepted>>
       ELSE /\ sq_pc' = [sq_pc EXCEPT ![i] = "recv"]
            /\ IF SendOk(mrx)
               THEN /\ merge_q' = Append(merge_q, Squared(Wrap(Square(sq_num[i]))))
                    /\ accepted' = Bump(accepted, MergeChan)
               ELSE UNCHANGED <<merge_q, accepted>>
            /\ UNCHANGED <<srx, merge_chan, discarded, square_chan>>
    /\ UNCHANGED <<overflow_checks, pool_size, generated_chan, generated_tx, generated_rx,
                   mrx, results_q, results_rx, gen_vars, sq_num, mg_vars, main_vars,
                   delivered, dispatched, drained>>

\* ------------------------------------------------------------- merge
\* `for msg in mrx`: take the next message, or, when the channel is closed,
\* leave the loop and return from the closure, which drops mrx and the
\* results send-end.
MergeRecv ==
    /\ merge_pc = "recv"
    /\ IF ~Closed(merge_q, MergeTxCount)
       THEN LET m == Head(merge_q) IN
            /\ merge_q # <<>>
            /\ delivered' = Bump(delivered, MergeChan)
            /\ IF m.tag = "Squared"
               THEN /\ merge_q' = Tail(merge_q)
                    /\ squared' = m.val
                    /\ merge_pc' = "send"
                    /\ UNCHANGED <<mrx, merged_result_chan, discarded>>
               ELSE /\ merge_pc' = "panicked"
                    /\ mrx' = FALSE
                    /\ merged_result_chan' = FALSE
                    /\ discarded' = [discarded EXCEPT ![MergeChan] = @ + Len(Tail(merge_q))]
                    /\ merge_q' = <<>>
                    /\ UNCHANGED squared
       ELSE /\ merge_pc' = "done"
            /\ mrx' = FALSE /\ merged_result_chan' = FALSE
            /\ discarded' = [discarded EXCEPT ![MergeChan] = @ + Len(merge_q)]
            /\ merge_q' = <<>>
            /\ UNCHANGED <<delivered, squared>>
    /\ UNCHANGED <<overflow_checks, pool_size, generated_chan, generated_tx, generated_rx,
                   square_chan, srx, results_q, results_rx, gen_vars, sq_vars,
                   main_vars, accepted, dispatched, drained>>

\* `let _ = merged_result_chan.send(Merged(squared))`
MergeSend ==
    /\ merge_pc = "send"
    /\ merge_pc' = "recv"
    /\ IF SendOk(results_rx)
       THEN /\ results_q' = Append(results_q, Merged(squared))
            /\ accepted' = Bump(accepted, ResultsChan)
       ELSE UNCHANGED <<results_q, accepted>>
    /\ UNCHANGED <<overflow_checks, pool_size, generated_chan, generated_tx, generated_rx,
                   square_chan, srx, merge_q, mrx, results_rx, gen_vars, sq_vars,
                   squared, merged_result_chan, main_vars,
                   delivered, discarded, dispatched, drained>>

\* ------------------------------------------------------------- main
\* One element of vec![square(merge_tx.clone()), square(merge_tx)]: the
\* worker thread is spawned with a merge send-end and its stx joins the pool.
MainSpawnSquare ==
    /\ main_pc = "spawn_square"
    /\ IF pool_size = 0
       THEN \* an empty vec![]: nothing is spawned and merge_tx stays in main
            /\ main_pc' = "spawn_generate"
            /\ UNCHANGED <<sq_pc, srx, merge_chan, merge_tx, square_workers>>
       ELSE LET i == Len(square_workers) IN
            /\ sq_pc' = [sq_pc EXCEPT ![i] = "recv"]
            /\ srx' = [srx EXCEPT ![i] = TRUE]
            /\ merge_chan' = [merge_chan EXCEPT ![i] = TRUE]
            /\ merge_tx' = KeepsMergeTx(i)
            /\ square_workers' = Append(square_workers, i)
            /\ main_pc' = IF i = pool_size - 1 THEN "spawn_generate" ELSE "spawn_square"
    /\ UNCHANGED <<overflow_checks, pool_size, generated_chan, generated_tx, generated_rx,
                   square_chan, merge_q, mrx, results_q, results_rx, gen_vars,
                   sq_num, mg_vars, msg, hist_vars>>

\* generate(generated_tx)
MainSpawnGenerate ==
    /\ main_pc = "spawn_generate"
    /\ gen_pc' = "loop"
    /\ main_pc' = "recv"
    /\ UNCHANGED <<overflow_checks, pool_size, chan_vars, num, gen_sent, gen_last, sq_vars,
                   mg_vars, msg, square_workers, merge_tx, hist_vars>>

\* `for msg in generated_rx` and the match on the message.
MainRecv ==
    /\ main_pc = "recv"
    /\ IF ~Closed(generated_chan, IF generated_tx THEN 1 ELSE 0)
       THEN LET m == Head(generated_chan) IN
            /\ generated_chan # <<>>
            /\ generated_chan' = Tail(generated_chan)
            /\ delivered' = Bump(delivered, GeneratedChan)
            /\ msg' = m
            /\ main_pc' = IF m.tag = "Generated" THEN "send" ELSE "panicked"
       ELSE /\ main_pc' = "broke"
            /\ UNCHANGED <<generated_chan, delivered, msg>>
    /\ UNCHANGED <<overflow_checks, pool_size, generated_tx, generated_rx, square_chan, srx,
                   merge_q, mrx, results_q, results_rx, gen_vars, sq_vars, mg_vars,
                   square_workers, merge_tx, accepted, discarded, dispatched, drained>>

\* pop_front().unwrap(), send, push_back, and the test that breaks the
\* loop.  On an empty pool the unwrap panics: main unwinds, dropping every
\* channel end it holds.
MainSend ==
    /\ main_pc = "send"
    /\ IF PopFrontFails(square_workers)
       THEN /\ main_pc' = "panicked"
            /\ generated_rx' = FALSE
            /\ generated_chan' = <<>>
            /\ results_rx' = FALSE
            /\ results_q' = <<>>
            /\ merge_tx' = FALSE
            /\ discarded' = [discarded EXCEPT
                                ![GeneratedChan] = @ + Len(generated_chan),
                                ![ResultsChan] = @ + Len(results_q)]
            /\ UNCHANGED <<square_chan, accepted, dispatched, square_workers>>
       ELSE LET worker == Head(square_workers) IN
            /\ square_workers # <<>>
            /\ IF SendOk(srx[worker])
               THEN /\ square_chan' = [square_chan EXCEPT ![worker] = Append(@, msg)]
                    /\ accepted' = Bump(accepted, SquareChan(worker))
               ELSE UNCHANGED <<square_chan, accepted>>
            /\ dispatched' = Append(dispatched, <<worker, msg.val>>)
            /\ square_workers' = Rotate(Tail(square_workers), worker)
            /\ main_pc' = IF StopTrigger(msg.val) THEN "broke" ELSE "recv"
            /\ UNCHANGED <<generated_rx, generated_chan, results_rx, results_q,
                           merge_tx, discarded>>
    /\ UNCHANGED <<overflow_checks, pool_size, generated_tx, srx, merge_q, mrx,
                   gen_vars, sq_vars, mg_vars, msg, delivered, drained>>

\* The for loop ends: its iterator, which owns generated_rx, is dropped and
\* what is still queued goes with it.
MainDropGeneratedRx ==
    /\ main_pc = "broke"
    /\ generated_rx' = FALSE
    /\ discarded' = [discarded EXCEPT ![GeneratedChan] = @ + Len(generated_chan)]
    /\ generated_chan' = <<>>
    /\ main_pc' = "end_scope"
    /\ UNCHANGED <<overflow_checks, pool_size, generated_tx, square_chan, srx, merge_q, mrx,
                   results_q, results_rx, gen_vars, sq_vars, mg_vars, msg,
                   square_workers, merge_tx, accepted, delivered, dispatched, drained>>

\* The inner scope ends: square_workers is dropped, one send-end after the
\* other from the front.
MainDropWorker ==
    /\ main_pc = "end_scope"
    /\ IF square_workers # <<>>
       THEN /\ square_workers' = Tail(square_workers)
            /\ UNCHANGED main_pc
       ELSE /\ main_pc' = "drain"
            /\ UNCHANGED square_workers
    /\ UNCHANGED <<overflow_checks, pool_size, chan_vars, gen_vars, sq_vars, mg_vars, msg,
                   merge_tx, hist_vars>>

\* `for result in results_rx`
MainDrain ==
    /\ main_pc = "drain"
    /\ IF ~Closed(results_q, IF merged_result_chan THEN 1 ELSE 0)
       THEN LET m == Head(results_q) IN
            /\ results_q # <<>>
            /\ delivered' = Bump(delivered, ResultsChan)
            /\ IF m.tag = "Merged"
               THEN /\ results_q' = Tail(results_q)
                    /\ drained' = Append(drained, m.val)
                    /\ UNCHANGED <<main_pc, results_rx, discarded>>
               ELSE /\ main_pc' = "panicked"
                    /\ results_rx' = FALSE
                    /\ discarded' = [discarded EXCEPT ![ResultsChan] = @ + Len(Tail(results_q))]
                    /\ results_q' = <<>>
                    /\ UNCHANGED drained
       ELSE /\ main_pc' = "done"
            /\ results_rx' = FALSE
            /\ discarded' = [discarded EXCEPT ![ResultsChan] = @ + Len(results_q)]
            /\ results_q' = <<>>
            /\ UNCHANGED <<delivered, drained>>
    /\ UNCHANGED <<overflow_checks, pool_size, generated_chan, generated_tx, generated_rx,
                   square_chan, srx, merge_q, mrx, gen_vars, sq_vars, mg_vars, msg,
                   square_workers, merge_tx, accepted, dispatched>>

\* ------------------------------------------------------------- specification
Generator == GenIterate
SquareWorker(i) == SquareRecv(i) \/ SquareSend(i)
Merge == MergeRecv \/ MergeSend
Main == MainSpawnSquare \/ MainSpawnGenerate \/ MainRecv \/ MainSend
          \/ MainDropGeneratedRx \/ MainDropWorker \/ MainDrain

Next ==
    \/ GenIterate
    \/ \E i \in Workers : SquareRecv(i)
    \/ \E i \in Workers : SquareSend(i)
    \/ MergeRecv
    \/ MergeSend
    \/ MainSpawnSquare
    \/ MainSpawnGenerate
    \/ MainRecv
    \/ MainSend
    \/ MainDropGeneratedRx
    \/ MainDropWorker
    \/ MainDrain

Spec == Init /\ [][Next]_vars

\* The same program over every pool size from 0 to NumWorkers.
PoolSpec == InitAnyPool /\ [][Next]_vars

\* Every thread that can take a step eventually takes one (preemptive
\* scheduler, section "Scheduling model").
FairSpec ==
    /\ Spec
    /\ WF_vars(Generator)
    /\ \A i \in Workers : WF_vars(SquareWorker(i))
    /\ WF_vars(Merge)
    /\ WF_vars(Main)

\* ------------------------------------------------------------- properties
Terminated == {"done", "panicked"}
Range(q) == {q[k] : k \in 1 .. Len(q)}
\* Number of messages main sent to worker i.
DispatchedTo(i) == Cardinality({k \in 1 .. Len(dispatched) : dispatched[k][1] = i})
\* q is a rearrangement of r.
IsPermutation(q, r) ==
    /\ Len(q) = Len(r)
    /\ \E f \in [1 .. Len(q) -> 1 .. Len(q)] :
          /\ \A a, b \in 1 .. Len(q) : a # b => f[a] # f[b]
          /\ \A a \in 1 .. Len(q) : q[a] = r[f[a]]

\* C1: under fair scheduling main's final drain loop over results_rx
\* eventually observes closure and returns, so main is never blocked
\* forever on generated_rx or results_rx.
MainRunsToCompletion == <>(main_pc = "done")
\* The drain loop has returned after receiving results.
MainReturned == main_pc = "done" /\ ~results_rx /\ Len(drained) > 0

\* C2 as stated: whenever the drain loop has returned, the generator, both
\* square workers and the merge stage have all terminated already.
AllStagesTerminatedAtReturn ==
    main_pc = "done" =>
        /\ gen_pc \in Terminated
        /\ \A i \in Workers : sq_pc[i] \in Terminated
        /\ merge_pc \in Terminated
\* C2 amended: whenever the drain loop has returned, both square workers
\* and the merge stage have terminated and released their send-ends, and
\* the generator has either terminated or can only fail its next send,
\* because generated_rx is gone.
DownstreamTerminatedAtReturn ==
    main_pc = "done" =>
        /\ \A i \in Workers : sq_pc[i] = "done" /\ ~merge_chan[i] /\ ~srx[i]
        /\ merge_pc = "done" /\ ~merged_result_chan /\ ~mrx
        /\ gen_pc \in Terminated \/ (gen_pc = "loop" /\ ~generated_rx)
\* main has returned while the generator is still inside its loop.
ReturnedBeforeGenerator == main_pc = "done" /\ gen_pc = "loop"

\* C3: when the drain loop returns, the Merged values it received are, as a
\* multiset, exactly the squares of the values main dispatched, one each,
\* and that multiset is {4, 9}.
CompleteUnderEarlyStop ==
    main_pc = "done" =>
        /\ IsPermutation(drained,
                         [k \in 1 .. Len(dispatched) |-> dispatched[k][2] * dispatched[k][2]])
        /\ drained \in {<<4, 9>>, <<9, 4>>}
\* The drain loop has returned with both dispatched values accounted for.
DrainedBoth == main_pc = "done" /\ Len(dispatched) = 2 /\ Len(drained) = 2

\* C4 as stated: on every channel, the generated channel included, no
\* enqueued message is discarded and once the consumer is finished every
\* accepted message has been delivered to it.
ConsumerFinished(c) ==
    CASE c = GeneratedChan -> ~generated_rx
      [] c = MergeChan -> merge_pc \in Terminated
      [] c = ResultsChan -> main_pc \in Terminated
      [] OTHER -> sq_pc[c[2]] \in Terminated
NoLossOn(c) ==
    /\ discarded[c] = 0
    /\ ConsumerFinished(c) => delivered[c] = accepted[c]
NoInFlightLoss == \A c \in Chans : NoLossOn(c)
\* C4 amended: on each worker inbound channel, the merge-input channel and
\* the results channel no enqueued message is ever discarded and every
\* accepted message is delivered before the consumer finishes; the
\* generated channel is excluded, because what the generator ran ahead of
\* the stop value is dropped together with generated_rx.
NoInFlightLossDownstream == \A c \in Downstream : NoLossOn(c)
\* Both values went through all downstream channels while messages of the
\* generated channel were dropped.
DeliveredDownstream ==
    /\ main_pc = "done"
    /\ discarded[GeneratedChan] > 0
    /\ accepted[ResultsChan] = 2 /\ delivered[ResultsChan] = 2
    /\ accepted[MergeChan] = 2 /\ delivered[MergeChan] = 2

\* C5: the merge stage has never left its receive loop (nor dropped the
\* results send-end) unless both square workers have left theirs and
\* dropped their clones of the merge-input send-end.
MergeTerminatesAfterWorkers ==
    (merge_pc = "done" \/ ~merged_result_chan \/ ~mrx) =>
        \A i \in Workers : sq_pc[i] \in Terminated /\ ~merge_chan[i]
\* The merge stage has terminated after forwarding both squares.
MergeTerminated == merge_pc = "done" /\ accepted[ResultsChan] = 2 /\ main_pc = "drain"

\* C6: the k-th message main dispatches goes to worker (k-1) mod N, so
\* every worker has received floor(L/N) or ceil(L/N) of the L dispatched.
RoundRobin ==
    LET L == Len(dispatched) IN
    /\ \A k \in 1 .. L : dispatched[k][1] = (k - 1) % NumWorkers
    /\ \A i \in Workers :
          /\ DispatchedTo(i) = accepted[SquareChan(i)]
          /\ DispatchedTo(i) \in {L \div NumWorkers, (L + NumWorkers - 1) \div NumWorkers}
\* Two messages have been dispatched and the pool is back in pool order.
DispatchedTwo == Len(dispatched) = 2 /\ square_workers = <<0, 1>>

\* C7: no worker ever holds a value whose square does not fit in 8 bits,
\* and every Squared or Merged value anywhere in the pipeline is exactly
\* v * v for a dispatched value v.
TransformExact ==
    LET squares == {dispatched[k][2] * dispatched[k][2] : k \in 1 .. Len(dispatched)} IN
    /\ \A i \in Workers :
          /\ sq_pc[i] # "panicked"
          /\ sq_pc[i] = "send" => ~Overflows(sq_num[i] * sq_num[i])
    /\ \A m \in Range(merge_q) \cup Range(results_q) : m.val \in squares
    /\ merge_pc = "send" => squared \in squares
    /\ \A v \in Range(drained) : v \in squares
    /\ Len(merge_q) + Len(results_q) + Len(drained) + (IF merge_pc = "send" THEN 1 ELSE 0)
          = accepted[MergeChan]
\* The square of the stop value has reached the drain loop.
SquareOfStopDrained == 9 \in Range(drained)

\* C8 as stated: the generator is terminated only after a failed send,
\* that is only once main has released generated_rx.
GeneratorExitsOnlyOnFailedSend == gen_pc \in Terminated => ~generated_rx

SentStrictlyIncreasing ==
    [][gen_sent' = gen_sent + 1 =>
          IF gen_sent = 0 THEN gen_last' = 2 ELSE gen_last' > gen_last]_vars

\* Values main has taken from the generated channel, in order.
Received ==
    [k \in 1 .. Len(dispatched) |-> dispatched[k][2]]
        \o (IF main_pc = "send" THEN <<msg.val>> ELSE <<>>)
IsPrefix(q, r) == Len(q) <= Len(r) /\ \A k \in 1 .. Len(q) : q[k] = r[k]
\* main has left its receive loop.
AfterBreak == {"broke", "end_scope", "drain", "done"}
Vals(q) == [k \in 1 .. Len(q) |-> q[k].val]

\* C11 as stated: the generator successfully sends exactly the values 2, 3
\* and never a value greater than 3.
GeneratorSendsOnlyTwoThree ==
    /\ gen_sent <= 2
    /\ gen_sent > 0 => gen_last <= 3
\* C11 amended: of the values the generator sends, exactly 2 then 3 are
\* ever received; whatever it sends beyond them while generated_rx is alive
\* is discarded unreceived when main breaks, and nothing is enqueued later.
OnlyTwoThreeReceived ==
    /\ IsPrefix(Received, <<2, 3>>)
    /\ ~generated_rx =>
          /\ Received = <<2, 3>>
          /\ generated_chan = <<>>
          /\ accepted[GeneratedChan] = 2 + discarded[GeneratedChan]
\* The generator ran ahead of the stop value and its surplus was dropped.
SurplusDiscarded == ~generated_rx /\ gen_last > 3 /\ discarded[GeneratedChan] > 0

\* Once main has left its loop a step takes nothing from the generated
\* channel and puts nothing on a worker channel.
NothingAfterBreak ==
    main_pc \in AfterBreak =>
        /\ delivered'[GeneratedChan] = delivered[GeneratedChan]
        /\ dispatched' = dispatched
        /\ \A i \in Workers :
              /\ accepted'[SquareChan(i)] = accepted[SquareChan(i)]
              /\ Len(square_chan'[i]) <= Len(square_chan[i])

\* C12: main receives exactly 2 then 3, dispatches both (3 before the
\* break), and once it has left the loop it takes nothing more from the
\* generated channel and sends nothing more to any worker.
StopTriggerHolds ==
    /\ [](/\ IsPrefix(Received, <<2, 3>>)
          /\ main_pc \in AfterBreak =>
                /\ dispatched = <<<<0, 2>>, <<1, 3>>>>
                /\ delivered[GeneratedChan] = 2)
    /\ [][NothingAfterBreak]_vars
\* main is draining after the break while the generator had sent more.
BrokeAtStopValue == main_pc = "drain" /\ delivered[GeneratedChan] = 2 /\ gen_sent > 2

RECURSIVE SumDelivered(_)
SumDelivered(S) ==
    IF S = {} THEN 0
    ELSE LET i == CHOOSE x \in S : TRUE
         IN delivered[SquareChan(i)] + SumDelivered(S \ {i})

\* C13: a square worker has left its loop only after main's scope holding
\* square_workers ended and the pool no longer holds its send-end; its
\* inbound channel is then empty and every message dispatched to it was
\* received, squared and forwarded.
WorkerExitsAfterPoolDropped ==
    /\ \A i \in Workers :
          sq_pc[i] = "done" =>
             /\ \A k \in 1 .. Len(square_workers) : square_workers[k] # i
             /\ main_pc \in {"end_scope", "drain", "done"}
             /\ square_chan[i] = <<>>
             /\ discarded[SquareChan(i)] = 0
             /\ delivered[SquareChan(i)] = DispatchedTo(i)
             /\ accepted[SquareChan(i)] = DispatchedTo(i)
    /\ accepted[MergeChan]
          = SumDelivered(Workers) - Cardinality({i \in Workers : sq_pc[i] = "send"})
\* Worker 0 has left its loop, having processed its message, while main is
\* still dropping the pool.
FirstWorkerExited ==
    /\ sq_pc[0] = "done" /\ sq_pc[1] # "done"
    /\ main_pc = "end_scope" /\ delivered[SquareChan(0)] = 1

\* C14 as stated: when main enters the final drain loop the results
\* send-end held by the merge stage has already been dropped.
DrainStartsAfterMergeDropped ==
    [][(main_pc # "drain" /\ main_pc' = "drain") => ~merged_result_chan']_vars

\* C15: once the pool is built main holds no merge-input send-end, and the
\* number of live merge-input send-ends equals the number of square
\* workers that have not terminated.
MergeTxOnePerLiveWorker ==
    main_pc # "spawn_square" =>
        /\ ~merge_tx
        /\ (IF merge_tx THEN 1 ELSE 0) + Cardinality({i \in Workers : merge_chan[i]})
              = Cardinality({i \in Workers : sq_pc[i] \notin Terminated})
        /\ \A i \in Workers : merge_chan[i] <=> sq_pc[i] \in {"recv", "send"}
\* One worker has terminated and exactly the other still holds a clone.
OneCloneLeft == ~merge_tx /\ ~merge_chan[0] /\ merge_chan[1] /\ sq_pc[0] = "done"

\* C16: every channel holds only the variant its consumer accepts and no
\* stage is in the state of an "Unexpected message" panic.
NoProtocolViolation ==
    /\ \A m \in Range(generated_chan) : m.tag = "Generated"
    /\ \A i \in Workers : \A m \in Range(square_chan[i]) : m.tag = "Generated"
    /\ \A m \in Range(merge_q) : m.tag = "Squared"
    /\ \A m \in Range(results_q) : m.tag = "Merged"
    /\ main_pc = "send" => msg.tag = "Generated"
    /\ main_pc # "panicked" /\ merge_pc # "panicked"
    /\ \A i \in Workers : sq_pc[i] # "panicked"
\* Messages of all three variants are in flight at once.
AllVariantsInFlight == generated_chan # <<>> /\ merge_q # <<>> /\ results_q # <<>>

\* The squares downstream of the workers, oldest first.
DownstreamOrder ==
    drained \o Vals(results_q)
        \o (IF merge_pc = "send" THEN <<squared>> ELSE <<>>) \o Vals(merge_q)
\* Both workers hold their value and nothing has reached the merge channel.
BranchPoint ==
    /\ sq_pc[0] = "send" /\ sq_pc[1] = "send"
    /\ accepted[MergeChan] = 0

\* A step leaves the downstream order alone or appends one square to it.
OrderKept ==
    \/ DownstreamOrder' = DownstreamOrder
    \/ \E v \in {4, 9} : DownstreamOrder' = Append(DownstreamOrder, v)

\* C17: the program does not fix the order of the two results.  The two
\* values are held by different workers; where both hold theirs, either
\* send can be the next step, putting 4 or putting 9 first on the merge
\* channel; and from the merge channel to the drain loop the order of
\* arrival is kept, so either order reaches main.
ResultOrderNotFixed ==
    /\ [](/\ \A i \in Workers : sq_pc[i] = "send" => sq_num[i] = Seed + i
          /\ BranchPoint =>
                /\ ENABLED (SquareSend(0) /\ merge_q' = <<Squared(4)>>)
                /\ ENABLED (SquareSend(1) /\ merge_q' = <<Squared(9)>>))
    /\ [][OrderKept]_vars
\* The square of the value dispatched last was drained first.
NineBeforeFour == main_pc = "done" /\ drained = <<9, 4>>
\* The square of the value dispatched first was drained first.
FourBeforeNine == main_pc = "done" /\ drained = <<4, 9>>

\* C18: whenever main is about to send to a worker, a worker to the
\* merge-input channel or the merge stage to the results channel, the
\* receive-end of that channel is alive, so the discarded results are Ok.
DiscardedSendsSucceed ==
    /\ (main_pc = "send" /\ square_workers # <<>>) => srx[Head(square_workers)]
    /\ \A i \in Workers : sq_pc[i] = "send" => mrx
    /\ merge_pc = "send" => results_rx
\* main, a worker and the merge stage are each about to send.
ThreeSendsPending == main_pc = "send" /\ sq_pc[0] = "send" /\ merge_pc # "done" /\ srx[1]

\* C19 as stated: with an empty pool main blocks forever on the first
\* generated message and never ends in a panic.
EmptyPoolBlocks ==
    pool_size = 0 =>
        /\ main_pc # "panicked"
        /\ main_pc = "send" => ~ENABLED MainSend
\* C19 amended: with an empty pool main is not blocked on the first
\* generated message: pop_front().unwrap() panics, main unwinds having
\* dispatched nothing and releases generated_rx and results_rx.
EmptyPoolPanics ==
    pool_size = 0 =>
        /\ main_pc \in {"spawn_square", "spawn_generate", "recv", "send", "panicked"}
        /\ main_pc = "send" => (ENABLED MainSend /\ msg = Generated(2))
        /\ main_pc = "panicked" =>
              /\ dispatched = <<>> /\ delivered[GeneratedChan] = 1
              /\ ~generated_rx /\ ~results_rx /\ ~merge_tx
\* main has panicked on the empty pool.
PanickedOnEmptyPool == pool_size = 0 /\ main_pc = "panicked"
====
